---- MODULE Spec2Model ----
(***************************************************************************)
(* Model of the task manager's persistence layer (src/src/utils/storage.ts)*)
(* and of its task decomposition (utils/helpers splitTaskIntoSubTasks).    *)
(*                                                                         *)
(* localStorage is a key -> text map with a capacity.  A stored text is    *)
(* modelled by the JSON value it parses to; an option <<>> / <<v>> stands  *)
(* for "key absent" / "key holds v".  Sizes are counted in units of one    *)
(* collection item; the 42-character probe of isLocalStorageAvailable is   *)
(* below that unit.  A stored text that is not the JSON of an array is     *)
(* told apart by the form of the key: "json", "unparsable" (JSON.parse     *)
(* throws) or "object" (it parses to a non-array such as {}).              *)
(***************************************************************************)
EXTENDS Integers, Sequences, FiniteSets, TLC

\* ----------------------------------------------------------------- bounds
MaxLen == 1
MaxItems == 2
MaxClock == 12
Quota == 5
MaxOps == 3
MaxRuns == 2
MaxCalls == 7
MaxMs == 16
MaxDay == 4
MaxPomodoros == 5
DstDay == 2
MaxClicks == 4
MaxTemp == 1
MaxImports == 1
MaxHashLen == 5

\* ------------------------------------------------------ program constants
MAX_BACKUPS == 5
Half == 65536
DefaultPomodoroDuration == 40
HoursPerDay == 24
MaxInt32 == 2147483647

\* ------------------------------------------------------------ JSON values
None == <<>>
Some(v) == <<v>>

\* A date field: the caller hands either a 'YYYY-MM-DD' string ("ymd") or a
\* Date object ("Date").  JSON.stringify keeps the string and writes the Date
\* as its ISO string ("iso"); new Date(text) makes a Date of either text.
DateToJSON(d) == IF d = "Date" THEN "iso" ELSE d
NewDate(text) == "Date"

SubTaskToJSON(st) == [st EXCEPT !.scheduledDate = DateToJSON(@)]
SubTasksToJSON(sts) == [i \in 1..Len(sts) |-> SubTaskToJSON(sts[i])]
ReviveSubTask(st) == [st EXCEPT !.scheduledDate = NewDate(@)]

safeJsonStringify(key, v) == IF key = "subTasks" THEN SubTasksToJSON(v) ELSE v

\* ------------------------------------------------- characters and hashing
RECURSIVE Flatten(_)
Flatten(ss) == IF ss = <<>> THEN <<>> ELSE Head(ss) \o Flatten(Tail(ss))

TaskChars(t) == <<48 + t.id, IF t.name = "" THEN 34 ELSE 65, 44>>
SubTaskChars(st) == <<48 + st.id, 48 + st.parentTaskId,
                      IF st.scheduledDate = "iso" THEN 84 ELSE 45, 44>>
RecordChars(r) == <<48 + r.id, 48 + r.taskId, 44>>
StatChars(n) == <<48 + n, 44>>

FieldOrder == <<"tasks", "subTasks", "pomodoroRecords", "settings",
                "dailyStats", "monthlyStats", "version", "backupDate">>

FieldChars(f, v) ==
  CASE f = "tasks"           -> <<116>> \o Flatten([i \in 1..Len(v) |-> TaskChars(v[i])])
    [] f = "subTasks"        -> <<115>> \o Flatten([i \in 1..Len(v) |-> SubTaskChars(v[i])])
    [] f = "pomodoroRecords" -> <<112>> \o Flatten([i \in 1..Len(v) |-> RecordChars(v[i])])
    [] f = "settings"        -> <<101, v.pomodoroDuration>>
    [] f = "dailyStats"      -> <<100>> \o Flatten([i \in 1..Len(v) |-> StatChars(v[i])])
    [] f = "monthlyStats"    -> <<109>> \o Flatten([i \in 1..Len(v) |-> StatChars(v[i])])
    [] f = "version"         -> <<118, 49, 46, 48, 46, 48>>
    [] f = "backupDate"      -> <<98, 48 + v>>

\* JSON.stringify of a snapshot payload: its fields in insertion order
Stringify(data) ==
  Flatten([i \in 1..Len(FieldOrder) |->
             IF FieldOrder[i] \in DOMAIN data
             THEN FieldChars(FieldOrder[i], data[FieldOrder[i]]) ELSE <<>>])

\* int32 arithmetic of the loop body `hash = ((hash << 5) - hash) + char;
\* hash = hash & hash`: the sum is wrapped to a signed 32-bit integer
Add32(x, y) ==
  IF x >= 0 /\ y >= 0 /\ x > MaxInt32 - y THEN (x - MaxInt32 - 1) + (y - MaxInt32 - 1)
  ELSE IF x < 0 /\ y < 0 /\ x < (-MaxInt32 - 1) - y THEN (x + MaxInt32 + 1) + (y + MaxInt32 + 1)
  ELSE x + y
Neg32(x) == IF x = -MaxInt32 - 1 THEN x ELSE -x
\* x << n, one doubling at a time
RECURSIVE Shl(_, _)
Shl(x, n) == IF n = 0 THEN x ELSE CHOOSE r \in {Add32(y, y) : y \in {Shl(x, n - 1)}} : TRUE
\* a loop body that shifts without subtracting: hash * 32 + char
hashStepShiftOnly(hash, char) ==
  CHOOSE r \in {Add32(shifted, char) : shifted \in {Shl(hash, 5)}} : TRUE
hashStep(hash, char) ==
  CHOOSE r \in {Add32(d, char) : d \in {Add32(shifted, Neg32(hash)) : shifted \in {Shl(hash, 5)}}} : TRUE
RECURSIVE hashLoop(_, _)
hashLoop(str, n) ==
  IF n = 0 THEN 0
  ELSE CHOOSE r \in {hashStep(hash, str[n]) : hash \in {hashLoop(str, n - 1)}} : TRUE

\* the 32-bit accumulator of generateHash as two 16-bit halves <<hi, lo>>
RECURSIVE HashFold(_, _)
HashFold(cs, n) ==
  IF n = 0 THEN <<0, 0>>
  ELSE LET p  == HashFold(cs, n - 1)
           lo == p[2] * 31 + cs[n]
           hi == (p[1] * 31 + lo \div Half) % Half
       IN <<hi, lo % Half>>

ToInt32(p) == IF p[1] >= Half \div 2 THEN (p[1] - Half) * Half + p[2]
              ELSE p[1] * Half + p[2]

generateHash(cs) == ToInt32(HashFold(cs, Len(cs)))

\* ------------------------------------------------------------------ sizes
\* the keys the data manager's file export and import name literally
BareKeys == {"bare:tasks", "bare:subTasks", "bare:pomodoroRecords", "bare:settings"}
\* the STORAGE_KEYS of the storage module, and the bare keys
CollectionKeys == {"tasks", "subTasks", "records", "settings", "daily", "monthly",
                   "projectTags"} \cup BareKeys
ArrayFields == {"tasks", "subTasks", "pomodoroRecords", "dailyStats", "monthlyStats"}

RECURSIVE SumOver(_, _)
SumOver(f, S) == IF S = {} THEN 0
                 ELSE LET x == CHOOSE y \in S : TRUE IN f[x] + SumOver(f, S \ {x})

Size(key, opt) == IF opt = None THEN 0
                  ELSE IF key \in {"settings", "bare:settings"} THEN 1 ELSE Len(opt[1])

SnapshotSize(b) ==
  1 + SumOver([f \in DOMAIN b.fields \cap ArrayFields |-> Len(b.fields[f])],
              DOMAIN b.fields \cap ArrayFields)

Used(s) == SumOver([k \in CollectionKeys |-> Size(k, s.ls[k])], CollectionKeys)
           + SumOver([k \in DOMAIN s.bk |-> SnapshotSize(s.bk[k])], DOMAIN s.bk)

\* localStorage.setItem throws QuotaExceededError when the value does not fit
Fits(s) == Used(s) <= Quota

\* the probe writes and removes a 21-character sentinel; it fails when
\* localStorage is disabled or throws on access
isLocalStorageAvailable(s) == s.avail

\* ------------------------------------------------------------------ reads
defaultSettings == [pomodoroDuration |-> DefaultPomodoroDuration]

Forms == {"json", "unparsable", "object"}

\* safeJsonParse(data || '[]', []) of the text under key: parsed tells whether
\* the result is the stored JSON value, array whether it is an array
safeJsonParse(s, key) ==
  IF s.ls[key] = None \/ s.form[key] = "unparsable"
  THEN [parsed |-> FALSE, array |-> TRUE, value |-> <<>>]
  ELSE [parsed |-> TRUE, array |-> s.form[key] = "json", value |-> s.ls[key][1]]

\* xStorage.getAll: the parsed value is mapped item by item, and .map of a
\* value that is not an array raises TypeError to the caller
getAll(s, key) ==
  IF ~isLocalStorageAvailable(s) THEN [value |-> <<>>, threw |-> FALSE]
  ELSE LET p == safeJsonParse(s, key)
       IN IF p.array THEN [value |-> p.value, threw |-> FALSE]
          ELSE [value |-> <<>>, threw |-> TRUE]

\* settingsStorage.get: {...defaultSettings, ...savedSettings}
settingsGet(s) ==
  IF ~isLocalStorageAvailable(s) \/ s.ls.settings = None \/ s.form.settings # "json"
  THEN defaultSettings
  ELSE s.ls.settings[1]

\* statsStorage.getDailyStats / getMonthlyStats: the parsed value as it is
getStats(s, key) ==
  IF ~isLocalStorageAvailable(s) \/ ~safeJsonParse(s, key).parsed THEN <<>>
  ELSE s.ls[key][1]

GetTasks(s) == getAll(s, "tasks").value
GetSubTasks(s) == LET v == getAll(s, "subTasks").value
                  IN [i \in 1..Len(v) |-> ReviveSubTask(v[i])]
GetRecords(s) == getAll(s, "records").value
GetSettings(s) == settingsGet(s)
GetDailyStats(s) == getStats(s, "daily")
GetMonthlyStats(s) == getStats(s, "monthly")

\* ---------------------------------------------------------------- backups
RECURSIVE Digits(_)
Digits(n) == IF n < 10 THEN <<n>> ELSE Digits(n \div 10) \o <<n % 10>>

\* string order of Array.prototype.sort on the keys' timestamp suffixes
RECURSIVE StrLess(_, _)
StrLess(a, b) ==
  IF a = <<>> THEN b # <<>>
  ELSE IF b = <<>> THEN FALSE
  ELSE IF Head(a) # Head(b) THEN Head(a) < Head(b)
  ELSE StrLess(Tail(a), Tail(b))

KeyLess(j, k) == StrLess(Digits(j), Digits(k))

\* index of key k in backupKeys.sort().reverse()
KeyIndex(keys, k) == Cardinality({j \in keys : KeyLess(k, j)})

cleanupOldBackups(s) ==
  LET keys == DOMAIN s.bk
      kept == {k \in keys : KeyIndex(keys, k) < MAX_BACKUPS}
  IN [s EXCEPT !.bk = [k \in kept |-> s.bk[k]]]

CurrentData(s, t) ==
  [tasks |-> GetTasks(s), subTasks |-> GetSubTasks(s), pomodoroRecords |-> GetRecords(s),
   settings |-> GetSettings(s), dailyStats |-> GetDailyStats(s),
   monthlyStats |-> GetMonthlyStats(s), version |-> "1.0.0", backupDate |-> t]

DataToJSON(d) == [d EXCEPT !.subTasks = SubTasksToJSON(@)]

\* the text autoBackup stores; origin is history, not part of the text
MakeSnapshot(s, t) ==
  LET json == DataToJSON(CurrentData(s, t))
  IN [parsable |-> TRUE, fields |-> json, hash |-> generateHash(Stringify(json)),
      origin |-> "autoBackup"]

PutBackup(bk, t, snap) == [k \in DOMAIN bk \cup {t} |-> IF k = t THEN snap ELSE bk[k]]

\* autoBackup at clock value t; a setItem that does not fit is caught and logged
\* whether the snapshot of clock value t fits: what is used without the
\* snapshot this key holds, plus the size of the new one
SnapshotFits(s, t) ==
  Used(s) - (IF t \in DOMAIN s.bk THEN SnapshotSize(s.bk[t]) ELSE 0)
          + SnapshotSize([fields |-> DataToJSON(CurrentData(s, t))]) <= Quota
BackupReadThrows(s) == \E k \in {"tasks", "subTasks", "records"} : getAll(s, k).threw
autoBackup(s, t) ==
  IF ~isLocalStorageAvailable(s) \/ BackupReadThrows(s) THEN s
  ELSE IF SnapshotFits(s, t)
       THEN cleanupOldBackups([s EXCEPT !.bk = PutBackup(@, t, MakeSnapshot(s, t))])
       ELSE s

\* ----------------------------------------------------------------- writes
\* taskStorage / subTaskStorage / pomodoroStorage .saveAll: st is the store
\* afterwards, threw tells whether setItem raised to the caller
saveAll(s, key, v, t) ==
  IF ~isLocalStorageAvailable(s) THEN [st |-> s, threw |-> FALSE]
  ELSE LET s1 == [s EXCEPT !.ls[key] = Some(safeJsonStringify(key, v)), !.form[key] = "json"]
       IN IF Fits(s1) THEN [st |-> autoBackup(s1, t), threw |-> FALSE]
          ELSE [st |-> s, threw |-> TRUE]

\* settingsStorage.save / statsStorage.saveDailyStats / saveMonthlyStats
save(s, key, v) ==
  IF ~isLocalStorageAvailable(s) THEN [st |-> s, threw |-> FALSE]
  ELSE LET s1 == [s EXCEPT !.ls[key] = Some(v), !.form[key] = "json"]
       IN IF Fits(s1) THEN [st |-> s1, threw |-> FALSE]
          ELSE [st |-> s, threw |-> TRUE]

\* ---------------------------------------------------------------- restore
\* backupKeys.sort().reverse()[0]
LatestKey(keys) == CHOOSE k \in keys : \A j \in keys : ~KeyLess(k, j)

RequiredFields == {"tasks", "pomodoroRecords", "settings"}
\* a validation that accepts every parsed object
validateAnyObject(data) == TRUE
validateData(data) == RequiredFields \subseteq DOMAIN data

\* the storage key of a snapshot field
FieldKey(f) ==
  CASE f = "tasks" -> "tasks"
    [] f = "subTasks" -> "subTasks"
    [] f = "pomodoroRecords" -> "records"
    [] f = "settings" -> "settings"
    [] f = "dailyStats" -> "daily"
    [] f = "monthlyStats" -> "monthly"
\* the order in which restoreLatestBackup writes the fields back
RestoreOrder == <<"tasks", "subTasks", "pomodoroRecords", "settings", "dailyStats", "monthlyStats">>
WriteField(s, f, v, t) ==
  IF f \in {"tasks", "subTasks", "pomodoroRecords"}
  THEN saveAll(s, FieldKey(f), v, t)
  ELSE save(s, FieldKey(f), v)
\* the writes of restoreLatestBackup from the i-th field on; a field the
\* snapshot lacks is skipped, a write that throws ends the restore; the
\* autoBackup of the i-th write runs at t + (i-1)*adv
RECURSIVE RestoreFrom(_, _, _, _, _)
RestoreFrom(s, data, i, t, adv) ==
  IF i > Len(RestoreOrder) THEN [st |-> s, threw |-> FALSE]
  ELSE IF RestoreOrder[i] \notin DOMAIN data THEN RestoreFrom(s, data, i + 1, t, adv)
  ELSE LET r == WriteField(s, RestoreOrder[i], data[RestoreOrder[i]], t + (i - 1) * adv)
       IN IF r.threw THEN r ELSE RestoreFrom(r.st, data, i + 1, t, adv)

\* exportData of the storage module at clock value t: threw when a getAll raised
ExportFields == {"tasks", "pomodoroRecords", "settings", "dailyStats", "monthlyStats"}
exportData(s, t) ==
  [threw |-> getAll(s, "tasks").threw \/ getAll(s, "records").threw,
   doc |-> [tasks |-> GetTasks(s), pomodoroRecords |-> GetRecords(s),
            settings |-> GetSettings(s), dailyStats |-> GetDailyStats(s),
            monthlyStats |-> GetMonthlyStats(s), exportDate |-> t]]

\* importData of the storage module: the fields of the export shape that the
\* document has are written in order; a throw is caught and reported as false
importData(s, doc, t, adv) ==
  LET data == [f \in DOMAIN doc \cap ExportFields |-> doc[f]]
      r == RestoreFrom(s, data, 1, t, adv)
  IN [st |-> r.st, ret |-> ~r.threw]

\* DataManager.exportData: the document is read from the bare keys
BareFields == <<"tasks", "subTasks", "pomodoroRecords", "settings">>
BareKey(f) ==
  CASE f = "tasks" -> "bare:tasks"
    [] f = "subTasks" -> "bare:subTasks"
    [] f = "pomodoroRecords" -> "bare:pomodoroRecords"
    [] f = "settings" -> "bare:settings"
fileExport(s, t) ==
  [threw |-> ~s.avail \/ \E i \in 1..Len(BareFields) : s.form[BareKey(BareFields[i])] = "unparsable",
   doc |-> [f \in {BareFields[i] : i \in 1..Len(BareFields)} |->
              IF s.ls[BareKey(f)] # None THEN s.ls[BareKey(f)][1]
              ELSE IF f = "settings" THEN [x \in {} |-> 0] ELSE <<>>]
           @@ [exportDate |-> t]]

\* DataManager.importData, confirmed: each field the document has is written
\* under its bare key; a setItem that throws ends the import with a message
RECURSIVE fileImportFrom(_, _, _)
fileImportFrom(s, doc, i) ==
  IF i > Len(BareFields) THEN [st |-> s, ret |-> TRUE]
  ELSE IF BareFields[i] \notin DOMAIN doc THEN fileImportFrom(s, doc, i + 1)
  ELSE LET k == BareKey(BareFields[i])
           s1 == [s EXCEPT !.ls[k] = Some(doc[BareFields[i]]), !.form[k] = "json"]
       IN IF s.avail /\ Fits(s1) THEN fileImportFrom(s1, doc, i + 1)
          ELSE [st |-> s, ret |-> FALSE]
fileImport(s, doc) == fileImportFrom(s, doc, 1)

\* ProjectManager.handleDelete of tag id, confirmed: the tasks that carry
\* the tag are saved without it, then projectTagStorage.delete filters the tag
\* out; threw when a getAll or a setItem raised
keepTasks(tasks, id) == tasks
clearedTasks(tasks, id) ==
  [i \in 1..Len(tasks) |->
     IF tasks[i].projectTagId = Some(id) THEN [tasks[i] EXCEPT !.projectTagId = None]
     ELSE tasks[i]]
projectTagDelete(s, id, t) ==
  LET tags == getAll(s, "projectTags")
  IN IF tags.threw THEN [st |-> s, threw |-> TRUE]
     ELSE saveAll(s, "projectTags", SelectSeq(tags.value, LAMBDA g : g.id # id), t)
TagIdsOf(s) == {getAll(s, "projectTags").value[i].id : i \in 1..Len(getAll(s, "projectTags").value)}
handleDelete(s, id, t, adv) ==
  LET tasks == getAll(s, "tasks")
  IN IF tasks.threw THEN [st |-> s, threw |-> TRUE]
     ELSE IF \E i \in 1..Len(tasks.value) : tasks.value[i].projectTagId = Some(id)
     THEN LET r == saveAll(s, "tasks", clearedTasks(tasks.value, id), t)
          IN IF r.threw THEN r ELSE projectTagDelete(r.st, id, t + adv)
     ELSE projectTagDelete(s, id, t)

restoreLatestBackup(s, t, adv) ==
  IF ~isLocalStorageAvailable(s) \/ DOMAIN s.bk = {} THEN [st |-> s, ret |-> FALSE]
  ELSE LET b == s.bk[LatestKey(DOMAIN s.bk)]
       IN IF ~b.parsable THEN [st |-> s, ret |-> FALSE]
          ELSE IF ~validateData(b.fields) THEN [st |-> s, ret |-> FALSE]
          ELSE IF b.hash # generateHash(Stringify(b.fields)) THEN [st |-> s, ret |-> FALSE]
          ELSE LET r == RestoreFrom(s, b.fields, 1, t, adv)
               IN [st |-> r.st, ret |-> ~r.threw]

\* ----------------------------------------------------- health and repair
Ids(seq) == {seq[i].id : i \in 1..Len(seq)}

TaskIncomplete(t) == t.id = 0 \/ t.name = ""
SubTaskOrphan(tasks, st) == st.parentTaskId \notin Ids(tasks)
\* a health check that looks for the record's task among the tasks only
RecordOrphanTasksOnly(tasks, subTasks, r) == r.taskId \notin Ids(tasks)
RecordOrphan(tasks, subTasks, r) == r.taskId \notin Ids(tasks) /\ r.taskId \notin Ids(subTasks)

\* checkDataHealth: one issue per offending item, in the order of the scans
checkDataHealth(s) ==
  LET tasks == GetTasks(s)
      subTasks == GetSubTasks(s)
      records == GetRecords(s)
      i1 == SelectSeq(tasks, LAMBDA t : TaskIncomplete(t))
      i2 == SelectSeq(subTasks, LAMBDA st : SubTaskOrphan(tasks, st))
      i3 == SelectSeq(records, LAMBDA r : RecordOrphan(tasks, subTasks, r))
      issues == [i \in 1..Len(i1) |-> [kind |-> "task", id |-> i1[i].id]]
                \o [i \in 1..Len(i2) |-> [kind |-> "subTask", id |-> i2[i].id]]
                \o [i \in 1..Len(i3) |-> [kind |-> "record", id |-> i3[i].id]]
  IN IF BackupReadThrows(s) THEN [isHealthy |-> FALSE, issues |-> <<[kind |-> "failed", id |-> 0]>>]
     ELSE [isHealthy |-> Len(issues) = 0, issues |-> issues]

\* a record filter that keeps the records of known tasks only when they come
\* first: it stops at the first orphan
validRecordsUntilOrphan(records, validTaskIds) ==
  IF \E i \in 1..Len(records) : records[i].taskId \notin validTaskIds
  THEN SubSeq(records, 1,
              (CHOOSE i \in 1..Len(records) :
                 /\ records[i].taskId \notin validTaskIds
                 /\ \A j \in 1..(i - 1) : records[j].taskId \in validTaskIds) - 1)
  ELSE records
validRecords(records, validTaskIds) ==
  SelectSeq(records, LAMBDA r : r.taskId \in validTaskIds)
validSubTasks(subTasks, taskIds) ==
  SelectSeq(subTasks, LAMBDA st : st.parentTaskId \in taskIds)

\* repairData; its three autoBackup calls run at t, t + adv, t + 2*adv
repairData(s, t, adv) ==
  LET tasks == GetTasks(s)
      subTasks == GetSubTasks(s)
      records == GetRecords(s)
      taskIds == Ids(tasks)
      validTaskIds == Ids(tasks) \cup Ids(subTasks)
      keptRecords == validRecords(records, validTaskIds)
      keptSubTasks == validSubTasks(subTasks, taskIds)
      repairedCount == (Len(records) - Len(keptRecords)) + (Len(subTasks) - Len(keptSubTasks))
  IN IF BackupReadThrows(s) THEN [st |-> s, repaired |-> FALSE, count |-> 0, failed |-> TRUE]
     ELSE IF repairedCount > 0
     THEN LET r1 == saveAll(s, "records", keptRecords, t)
              r2 == IF r1.threw THEN r1 ELSE saveAll(r1.st, "subTasks", keptSubTasks, t + adv)
          IN IF r2.threw
             THEN [st |-> r2.st, repaired |-> FALSE, count |-> 0, failed |-> TRUE]
             ELSE [st |-> autoBackup(r2.st, t + 2 * adv), repaired |-> TRUE,
                   count |-> repairedCount, failed |-> FALSE]
     ELSE [st |-> s, repaired |-> FALSE, count |-> 0, failed |-> FALSE]

\* -------------------------------------------------- task decomposition
\* An instant is a number of hours since 00:00 UTC of day 0; calendar days are
\* numbered from day 0, so that the month carry setDate performs is the
\* identity.  A zone gives the offset of local time at an instant; the two
\* zones with daylight saving move their clocks forward on day DstDay at
\* 02:00 local time.
Zones == {"UTC", "Berlin", "NewYork"}
Offset(z, h) ==
  CASE z = "UTC" -> 0
    [] z = "Berlin" -> IF h >= DstDay * HoursPerDay + 1 THEN 2 ELSE 1
    [] z = "NewYork" -> IF h >= DstDay * HoursPerDay + 7 THEN 0 - 4 ELSE 0 - 5
Local(z, h) == h + Offset(z, h)
\* the instant that shows local time l; a local time the clock change skips
\* is read with the offset before the change
FromLocal(z, l) ==
  LET cands == {u \in (l - 2)..(l + 5) : Local(z, u) = l}
  IN IF cands = {} THEN l - Offset(z, 0)
     ELSE CHOOSE u \in cands : \A v \in cands : u <= v
\* new Date('YYYY-MM-DD'): midnight UTC of that day
DateOfDay(d) == d * HoursPerDay
getDate(z, h) == Local(z, h) \div HoursPerDay
setDate(z, h, day) == FromLocal(z, day * HoursPerDay + (Local(z, h) % HoursPerDay))
\* formatDate: the date part of toISOString, the UTC calendar day
formatDate(h) == [ymd |-> h \div HoursPerDay]
CeilDiv(a, b) == (a + b - 1) \div b
\* a day count that leaves out the deadline day
daysDiffExclusive(t) == CeilDiv(t.deadline - t.startDate, HoursPerDay)
daysDiffOf(t) == CeilDiv(t.deadline - t.startDate, HoursPerDay) + 1
dailyPomodorosOf(t) ==
  IF t.dailyPomodoros # None /\ t.dailyPomodoros[1] # 0 /\ t.dailyPomodoros[1] > 0
  THEN t.dailyPomodoros[1] ELSE 1
\* the Date of loop index i (from 0)
scheduledDateObj(z, t, i) == setDate(z, t.startDate, getDate(z, t.startDate) + i)
\* generateId is modelled by the position of the subtask in the result
DailySubTask(z, t, i) ==
  [id |-> i + 1,
   parentTaskId |-> t.id,
   label |-> getDate(z, scheduledDateObj(z, t, i)),
   scheduledDate |-> formatDate(scheduledDateObj(z, t, i)),
   pomodoros |-> dailyPomodorosOf(t),
   completedPomodoros |-> 0,
   status |-> "pending"]
\* a day's share that ignores what is left
dayPomodorosFull(pomodorosPerDay, remainingPomodoros) == pomodorosPerDay
dayPomodoros(pomodorosPerDay, remainingPomodoros) ==
  IF pomodorosPerDay <= remainingPomodoros THEN pomodorosPerDay ELSE remainingPomodoros
EvenSubTask(z, t, i, n) ==
  [id |-> i + 1,
   parentTaskId |-> t.id,
   label |-> i + 1,
   scheduledDate |-> [date |-> scheduledDateObj(z, t, i)],
   pomodoros |-> n,
   completedPomodoros |-> 0,
   status |-> "pending"]
\* the loop of the even distribution from index i on
RECURSIVE EvenLoop(_, _, _, _, _, _)
EvenLoop(z, t, i, daysDiff, pomodorosPerDay, remainingPomodoros) ==
  IF i >= daysDiff THEN <<>>
  ELSE LET n == dayPomodoros(pomodorosPerDay, remainingPomodoros)
       IN IF n > 0
          THEN <<EvenSubTask(z, t, i, n)>>
               \o EvenLoop(z, t, i + 1, daysDiff, pomodorosPerDay, remainingPomodoros - n)
          ELSE EvenLoop(z, t, i + 1, daysDiff, pomodorosPerDay, remainingPomodoros)
splitTaskIntoSubTasks(z, t) ==
  IF t.isDaily
  THEN [k \in 1..daysDiffOf(t) |-> DailySubTask(z, t, k - 1)]
  ELSE EvenLoop(z, t, 0, daysDiffOf(t), CeilDiv(t.totalPomodoros, daysDiffOf(t)),
                t.totalPomodoros)

\* ------------------------------------------------------------------ timer
\* A world w is what one handler call can read and write: t the state of the
\* Timer component, a the state of App, s localStorage, threw whether a write
\* raised.  Handlers read the values of the render they were created in and
\* queue their writes; Render commits the writes and runs the effects.
SecondsPerMinute == 60
settings == [pomodoroDuration |-> 1, shortBreakDuration |-> 1]
WorkSeconds == settings.pomodoroDuration * SecondsPerMinute
BreakSeconds == settings.shortBreakDuration * SecondsPerMinute

\* 'YYYY-MM-DD' texts, by day number
DateText == <<"2025-06-01", "2025-06-02", "2025-06-03">>
\* new Date(text): midnight UTC of the day the text names
ParseDate(text) == DateOfDay(CHOOSE d \in 1..Len(DateText) : DateText[d] = text)
\* `${y}-${m}-${d}` of the local calendar day
LocalDateText(z, h) == DateText[getDate(z, h)]
\* setHours(hr, ...): the instant of the same local day at local hour hr
setHours(z, h, hr) == FromLocal(z, getDate(z, h) * HoursPerDay + hr)

isTodayTask(z, h, t) ==
  LET td == setHours(z, h, 0)
      startDate == setHours(z, t.startDate, 0)
      deadline == setHours(z, t.deadline, HoursPerDay - 1)
  IN /\ td >= startDate
     /\ td <= deadline
     /\ (t.isDaily \/ t.status # "completed")
isTodaySubTask(z, h, st) ==
  /\ setHours(z, h, 0) = setHours(z, ParseDate(st.scheduledDate), 0)
  /\ st.status # "completed"
isTodayTempSubTask(z, h, tt) == tt.scheduledDate = LocalDateText(z, h)

IdleTimer ==
  [timeLeft |-> WorkSeconds, isRunning |-> FALSE, isPaused |-> FALSE,
   currentRecord |-> None, mode |-> "work", tempSubTasks |-> <<>>,
   selectedTempSubTask |-> None, armed |-> 0]
NoApp ==
  [tasks |-> <<>>, subTasks |-> <<>>, pomodoroRecords |-> <<>>,
   selectedTask |-> None, selectedSubTask |-> None]

Replace(seq, x) == [i \in 1..Len(seq) |-> IF seq[i].id = x.id THEN x ELSE seq[i]]
Wrote(w, r) == [w EXCEPT !.s = r.st, !.threw = w.threw \/ r.threw]

\* App.updateTask, updateSubTask, addPomodoroRecord, updatePomodoroRecord
updateTask(w, updatedTask, t) ==
  LET newTasks == Replace(w.a.tasks, updatedTask)
  IN Wrote([w EXCEPT !.a.tasks = newTasks], saveAll(w.s, "tasks", newTasks, t))
updateSubTask(w, updatedSubTask, t) ==
  LET newSubTasks == Replace(w.a.subTasks, updatedSubTask)
  IN Wrote([w EXCEPT !.a.subTasks = newSubTasks], saveAll(w.s, "subTasks", newSubTasks, t))
addPomodoroRecord(w, record, t) ==
  LET newRecords == Append(w.a.pomodoroRecords, record)
  IN Wrote([w EXCEPT !.a.pomodoroRecords = newRecords], saveAll(w.s, "records", newRecords, t))
updatePomodoroRecord(w, updatedRecord, t) ==
  LET newRecords == Replace(w.a.pomodoroRecords, updatedRecord)
  IN Wrote([w EXCEPT !.a.pomodoroRecords = newRecords], saveAll(w.s, "records", newRecords, t))

\* App.addTask, deleteTask, addSubTask, addSubTasks, deleteSubTask: the list
\* of the last render is changed, set as the new state and saved; a saveAll
\* that raises ends the handler after the state was set
addTask(w, task, t) ==
  LET newTasks == Append(w.a.tasks, task)
  IN Wrote([w EXCEPT !.a.tasks = newTasks], saveAll(w.s, "tasks", newTasks, t))
withoutSubTasksOf(subTasks, taskId) ==
  SelectSeq(subTasks, LAMBDA subTask : subTask.parentTaskId # taskId)
deleteTask(w, taskId, t, adv) ==
  LET newTasks == SelectSeq(w.a.tasks, LAMBDA task : task.id # taskId)
      w1 == Wrote([w EXCEPT !.a.tasks = newTasks], saveAll(w.s, "tasks", newTasks, t))
      newSubTasks == withoutSubTasksOf(w.a.subTasks, taskId)
  IN IF w1.threw THEN w1
     ELSE Wrote([w1 EXCEPT !.a.subTasks = newSubTasks],
                saveAll(w1.s, "subTasks", newSubTasks, t + adv))
addSubTasks(w, newSubTasks, t) ==
  LET updatedSubTasks == w.a.subTasks \o newSubTasks
  IN Wrote([w EXCEPT !.a.subTasks = updatedSubTasks],
           saveAll(w.s, "subTasks", updatedSubTasks, t))
addSubTask(w, subTask, t) == addSubTasks(w, <<subTask>>, t)
deleteSubTask(w, subTaskId, t) ==
  LET newSubTasks == SelectSeq(w.a.subTasks, LAMBDA subTask : subTask.id # subTaskId)
  IN Wrote([w EXCEPT !.a.subTasks = newSubTasks], saveAll(w.s, "subTasks", newSubTasks, t))

\* TaskManager.handleAddTask: the task is added, and for a daily task the
\* subtasks splitTaskIntoSubTasks makes of it, under generated ids and with
\* the day text they are scheduled on
handleAddTask(w, z, newTask, subTaskId, t, adv) ==
  LET w1 == addTask(w, newTask, t)
      parts == splitTaskIntoSubTasks(z, newTask)
      generatedSubTasks ==
        [i \in 1..Len(parts) |->
           [id |-> subTaskId + i - 1, parentTaskId |-> parts[i].parentTaskId,
            scheduledDate |-> "ymd"]]
  IN IF w1.threw \/ ~newTask.isDaily THEN w1
     ELSE addSubTasks(w1, generatedSubTasks, t + adv)

\* App.handleTaskSelect(task, subTask); kind "none" is the call with no target
handleTaskSelect(w, kind, x, z, h) ==
  CASE kind = "subTask" ->
         IF ~isTodaySubTask(z, h, x) THEN w
         ELSE [w EXCEPT !.a.selectedSubTask = Some(x), !.a.selectedTask = None]
    [] kind = "task" ->
         IF ~isTodayTask(z, h, x) THEN w
         ELSE [w EXCEPT !.a.selectedTask = Some(x), !.a.selectedSubTask = None]
    [] kind = "none" ->
         [w EXCEPT !.a.selectedTask = None, !.a.selectedSubTask = None]
handleTaskManagerTaskSelect(w, x) ==
  [w EXCEPT !.a.selectedTask = Some(x), !.a.selectedSubTask = None]

\* generateId is modelled by counting what exists
createTempSubTask(w, z, h) ==
  LET newTempSubTask ==
        [id |-> 3 + Len(w.t.tempSubTasks), scheduledDate |-> LocalDateText(z, h),
         pomodoros |-> 1, completedPomodoros |-> 0, status |-> "pending"]
  IN [w EXCEPT !.t.tempSubTasks = Append(@, newTempSubTask),
               !.t.selectedTempSubTask = Some(newTempSubTask)]
updateTempSubTask(w, updatedTempSubTask) ==
  [w EXCEPT !.t.tempSubTasks = Replace(@, updatedTempSubTask),
            !.t.selectedTempSubTask =
              IF @ # None /\ @[1].id = updatedTempSubTask.id
              THEN Some(updatedTempSubTask) ELSE @]
\* the click on an ad hoc task of the list
selectTempSubTask(w, x) ==
  IF x.status = "completed" THEN w ELSE [w EXCEPT !.t.selectedTempSubTask = Some(x)]

\* selectedTempSubTask || selectedSubTask || selectedTask
currentTask(w) ==
  IF w.t.selectedTempSubTask # None THEN w.t.selectedTempSubTask
  ELSE IF w.a.selectedSubTask # None THEN w.a.selectedSubTask
  ELSE w.a.selectedTask
notToday(w, z, h) ==
  IF w.t.selectedTempSubTask # None /\ ~isTodayTempSubTask(z, h, w.t.selectedTempSubTask[1])
  THEN TRUE
  ELSE IF w.a.selectedSubTask # None /\ ~isTodaySubTask(z, h, w.a.selectedSubTask[1])
  THEN TRUE
  ELSE w.a.selectedTask # None /\ ~isTodayTask(z, h, w.a.selectedTask[1])

startTimer(w, z, h, t) ==
  IF currentTask(w) = None THEN w
  ELSE IF currentTask(w)[1].status = "completed" THEN w
  ELSE IF notToday(w, z, h) THEN w
  ELSE LET newRecord == [id |-> 5 + Len(w.a.pomodoroRecords),
                         taskId |-> currentTask(w)[1].id,
                         startTime |-> h, endTime |-> None, status |-> "active"]
       IN addPomodoroRecord(
            [w EXCEPT !.t.currentRecord = Some(newRecord), !.t.isRunning = TRUE,
                      !.t.isPaused = FALSE, !.t.mode = "work"], newRecord, t)
\* the disabled attribute of the start button
startDisabled(w, z, h) ==
  \/ w.a.selectedTask = None /\ w.a.selectedSubTask = None /\ w.t.selectedTempSubTask = None
  \/ /\ w.a.selectedTask # None
     /\ ~isTodayTask(z, h, w.a.selectedTask[1]) \/ w.a.selectedTask[1].status = "completed"
  \/ /\ w.a.selectedSubTask # None
     /\ \/ ~isTodaySubTask(z, h, w.a.selectedSubTask[1])
        \/ w.a.selectedSubTask[1].status = "completed"
  \/ /\ w.t.selectedTempSubTask # None
     /\ \/ ~isTodayTempSubTask(z, h, w.t.selectedTempSubTask[1])
        \/ w.t.selectedTempSubTask[1].status = "completed"

SetStatus(w, status, t) ==
  IF w.t.currentRecord = None THEN w
  ELSE LET updatedRecord == [w.t.currentRecord[1] EXCEPT !.status = status]
       IN updatePomodoroRecord([w EXCEPT !.t.currentRecord = Some(updatedRecord)],
                               updatedRecord, t)
pauseTimer(w, t) == [SetStatus(w, "paused", t) EXCEPT !.t.isPaused = TRUE]
resumeTimer(w, t) == [SetStatus(w, "active", t) EXCEPT !.t.isPaused = FALSE]

\* a stop that leaves the record as it is
KeepOpen(w, h, t) == w
Close(w, h, t) ==
  IF w.t.currentRecord = None THEN w
  ELSE updatePomodoroRecord(
         w, [w.t.currentRecord[1] EXCEPT !.endTime = Some(h), !.status = "completed"], t)
Cleared(w) ==
  [w EXCEPT !.t.isRunning = FALSE, !.t.isPaused = FALSE, !.t.currentRecord = None,
            !.t.timeLeft = WorkSeconds, !.t.mode = "work"]

Progress(x, goal) ==
  [x EXCEPT !.completedPomodoros = @ + 1,
            !.status = IF x.completedPomodoros + 1 >= goal THEN "completed"
                       ELSE "in-progress"]
updateTaskProgress(w, t) ==
  IF w.t.selectedTempSubTask # None
  THEN updateTempSubTask(w, Progress(w.t.selectedTempSubTask[1],
                                     w.t.selectedTempSubTask[1].pomodoros))
  ELSE IF w.a.selectedSubTask # None
  THEN updateSubTask(w, Progress(w.a.selectedSubTask[1], w.a.selectedSubTask[1].pomodoros), t)
  ELSE IF w.a.selectedTask # None
  THEN updateTask(w, Progress(w.a.selectedTask[1], w.a.selectedTask[1].totalPomodoros), t)
  ELSE w

\* stops that lose the record, or count a pomodoro
stopTimerNoStore(w, h, t) == Cleared(w)
stopTimerCounting(w, h, t) == Cleared(Close(updateTaskProgress(w, t), h, t))
stopTimer(w, h, t) == Cleared(Close(w, h, t))
resetTimer(w, h, t) == Cleared(Close(w, h, t))

\* a countdown that loses two seconds per tick
tickTwice(w, h, t, zero) ==
  IF w.t.timeLeft <= 2
  THEN IF w.t.mode = "work"
       THEN [updateTaskProgress(w, t) EXCEPT !.t.mode = "break", !.t.timeLeft = BreakSeconds]
       ELSE [stopTimer(w, h, t) EXCEPT !.t.timeLeft = zero]
  ELSE [w EXCEPT !.t.timeLeft = @ - 2]
\* the function handed to setTimeLeft by the interval; zero is what it
\* returns when the break ends, which React applies before or after the
\* setTimeLeft of stopTimer
tick(w, h, t, zero) ==
  IF w.t.timeLeft <= 1
  THEN IF w.t.mode = "work"
       THEN [updateTaskProgress(w, t) EXCEPT !.t.mode = "break", !.t.timeLeft = BreakSeconds]
       ELSE [stopTimer(w, h, t) EXCEPT !.t.timeLeft = zero]
  ELSE [w EXCEPT !.t.timeLeft = @ - 1]


\* the effects after a render from world v to world w
resetDeps(w) ==
  <<w.a.selectedTask, w.a.selectedSubTask, w.t.selectedTempSubTask,
    settings.pomodoroDuration, w.t.isRunning>>
noResetEffect(tm) == tm
selectionResetEffect(tm) ==
  IF ~tm.isRunning THEN [tm EXCEPT !.timeLeft = WorkSeconds, !.mode = "work"] ELSE tm
tickDeps(w) ==
  <<w.t.isRunning, w.t.isPaused, w.t.timeLeft, w.t.mode, w.t.currentRecord,
    w.t.selectedTempSubTask, w.a>>
keepInterval(n) == n
clearInterval(n) == IF n > 0 THEN n - 1 ELSE n
tickEffect(tm, n) ==
  [tm EXCEPT !.armed = clearInterval(n)
                       + IF tm.isRunning /\ ~tm.isPaused /\ tm.timeLeft > 0 THEN 1 ELSE 0]
Render(v, w) ==
  LET t1 == IF resetDeps(w) # resetDeps(v) THEN selectionResetEffect(w.t) ELSE w.t
      w1 == [w EXCEPT !.t = t1]
  IN IF tickDeps(w1) # tickDeps(v) THEN [w1 EXCEPT !.t = tickEffect(t1, v.t.armed)] ELSE w1

\* ------------------------------------------------------------------ state
\* store: localStorage; now: Date.now(); op, ret: the last operation and what
\* it returned; ops: operations performed; calls, made: the autoBackup calls
\* made through createBackup and the keys they stored
\* app, timer: the state of the App and Timer components; today: the instant
\* new Date() gives while the page is open; clicks: the clicks made
VARIABLES store, now, op, ret, ops, calls, made, zone, task, result,
          app, timer, today, clicks
vars == <<store, now, op, ret, ops, calls, made, zone, task, result,
          app, timer, today, clicks>>
splitVars == <<zone, task, result>>
timerVars == <<app, timer, today, clicks>>

T(i) == [id |-> i, name |-> "A"]
S(i, p, d) == [id |-> i, parentTaskId |-> p, scheduledDate |-> d]
R(i, t) == [id |-> i, taskId |-> t]

\* collections the application hands to saveAll
TaskScript == <<T(1), T(2), T(3)>>
SubTaskScript == <<S(4, 1, "ymd"), S(5, 2, "Date"), S(6, 1, "Date")>>
RecordScript == <<R(7, 1), R(8, 4), R(9, 2)>>
Prefixes(script) == {SubSeq(script, 1, n) : n \in 1..MaxLen}
TaskInputs == Prefixes(TaskScript)
SubTaskInputs == Prefixes(SubTaskScript)
RecordInputs == Prefixes(RecordScript)
SettingsInputs == {[pomodoroDuration |-> 25]}
StatsInputs == {<<1>>}

NoTask == [id |-> 0, isDaily |-> FALSE, startDate |-> 0, deadline |-> 0,
           totalPomodoros |-> 0, dailyPomodoros |-> None]
EmptyStore == [ls |-> [k \in CollectionKeys |-> None], bk |-> <<>>, avail |-> TRUE,
               form |-> [k \in CollectionKeys |-> "json"]]
\* sel: the backup key a restore read or the id a deletion named, 0 otherwise
NoRet == [ok |-> TRUE, count |-> 0, issues |-> <<>>, sel |-> 0]

Init ==
  /\ store = EmptyStore
  /\ now = 10
  /\ op = "init"
  /\ ret = NoRet
  /\ ops = 0
  /\ calls = 0
  /\ made = {}
  /\ zone = "UTC"
  /\ task = NoTask
  /\ result = <<>>
  /\ app = NoApp
  /\ timer = IdleTimer
  /\ today = 0
  /\ clicks = 0

Done(name, s2, r) ==
  /\ store' = s2
  /\ op' = name
  /\ ret' = r
  /\ ops' = ops + 1
  /\ UNCHANGED <<splitVars, timerVars>>

\* ---------------------------------------------------------------- actions
Tick ==
  /\ now < MaxClock
  /\ now' = now + 1
  /\ UNCHANGED <<store, op, ret, ops, calls, made, zone, task, result, timerVars>>

SaveCollection(name, key, v) ==
  /\ ops < MaxOps
  /\ LET r == saveAll(store, key, v, now)
     IN Done(name, r.st, [NoRet EXCEPT !.ok = ~r.threw])
  /\ UNCHANGED <<now, calls, made>>

SaveTasks == \E v \in TaskInputs : SaveCollection("saveTasks", "tasks", v)
SaveSubTasks == \E v \in SubTaskInputs : SaveCollection("saveSubTasks", "subTasks", v)
SaveRecords == \E v \in RecordInputs : SaveCollection("saveRecords", "records", v)

SaveSingle(name, key, v) ==
  /\ ops < MaxOps
  /\ LET r == save(store, key, v)
     IN Done(name, r.st, [NoRet EXCEPT !.ok = ~r.threw])
  /\ UNCHANGED <<now, calls, made>>

SaveSettings == \E v \in SettingsInputs : SaveSingle("saveSettings", "settings", v)
SaveDailyStats == \E v \in StatsInputs : SaveSingle("saveDailyStats", "daily", v)
SaveMonthlyStats == \E v \in StatsInputs : SaveSingle("saveMonthlyStats", "monthly", v)

\* DataManager.createBackup
CreateBackup ==
  /\ calls < MaxCalls
  /\ store' = autoBackup(store, now)
  /\ op' = "createBackup"
  /\ ret' = NoRet
  /\ calls' = calls + 1
  /\ made' = IF now \in DOMAIN store'.bk THEN made \cup {now} ELSE made
  /\ UNCHANGED <<now, ops, zone, task, result, timerVars>>

\* DataManager.restoreBackup
RestoreBackup ==
  /\ ops < MaxOps
  /\ \E adv \in 0..1 :
       /\ now + 2 * adv <= MaxClock
       /\ LET r == restoreLatestBackup(store, now, adv)
          IN Done("restore", r.st,
                  [NoRet EXCEPT !.ok = r.ret,
                                !.sel = IF DOMAIN store.bk = {} THEN 0
                                        ELSE LatestKey(DOMAIN store.bk)])
       /\ now' = now + 2 * adv
  /\ UNCHANGED <<calls, made>>

\* DataManager.deleteBackup
DeleteBackup ==
  /\ ops < MaxOps
  /\ \E k \in DOMAIN store.bk :
       Done("deleteBackup",
            [store EXCEPT !.bk = [j \in DOMAIN store.bk \ {k} |-> store.bk[j]]], NoRet)
  /\ UNCHANGED <<now, calls, made>>

\* DataManager.repairData
RepairData ==
  /\ ops < MaxRuns
  /\ \E adv \in 0..1 :
       /\ now + 2 * adv <= MaxClock
       /\ LET r == repairData(store, now, adv)
          IN Done("repair", r.st, [NoRet EXCEPT !.ok = r.repaired, !.count = r.count])
       /\ now' = now + 2 * adv
  /\ UNCHANGED <<calls, made>>

\* DataManager.checkHealth
CheckHealth ==
  /\ ops < MaxRuns
  /\ LET h == checkDataHealth(store)
     IN Done("check", store, [NoRet EXCEPT !.ok = h.isHealthy, !.issues = h.issues])
  /\ UNCHANGED <<now, calls, made>>

\* The newest snapshot is edited from outside the application: its stored hash
\* is altered, its text is damaged, or it is rewritten without one collection
\* field (a snapshot of a build that did not have the field) with its own hash.
DropField(b, f) ==
  LET data == [g \in DOMAIN b.fields \ {f} |-> b.fields[g]]
  IN [parsable |-> TRUE, fields |-> data, hash |-> generateHash(Stringify(data)),
      origin |-> "edited"]

SnapshotFields == {"tasks", "subTasks", "pomodoroRecords", "settings", "dailyStats", "monthlyStats"}

EditBackup ==
  /\ ops < MaxOps
  /\ DOMAIN store.bk # {}
  /\ LET k == LatestKey(DOMAIN store.bk)
         b == store.bk[k]
     IN /\ b.parsable
        /\ \E nb \in {[b EXCEPT !.hash = @ + 1, !.origin = "edited"],
                      [b EXCEPT !.parsable = FALSE, !.origin = "edited"]}
                     \cup {DropField(b, f) : f \in SnapshotFields \cap DOMAIN b.fields} :
             Done("edit", [store EXCEPT !.bk[k] = nb], NoRet)
  /\ UNCHANGED <<now, calls, made>>

Next ==
  \/ Tick
  \/ SaveTasks
  \/ SaveSubTasks
  \/ SaveRecords
  \/ SaveSettings
  \/ SaveDailyStats
  \/ SaveMonthlyStats
  \/ RestoreBackup
  \/ DeleteBackup
  \/ EditBackup

Spec == Init /\ [][Next]_vars

\* ------------------------------------------- snapshots made one by one
Elapse ==
  /\ now < MaxMs
  /\ now' = now + 1
  /\ UNCHANGED <<store, op, ret, ops, calls, made, zone, task, result, timerVars>>

NextBackup ==
  \/ Elapse
  \/ CreateBackup

SpecBackup == Init /\ [][NextBackup]_vars

\* ------------------------------------ integrity of an arbitrary store
\* a task without id, a complete task and a task without name
TaskUniverse == {[id |-> 0, name |-> "A"], [id |-> 1, name |-> "A"], [id |-> 2, name |-> ""]}
SubTaskUniverse == [id : {3, 4}, parentTaskId : {1, 2}, scheduledDate : {"iso"}]
RecordUniverse == [id : {5, 6}, taskId : 1..4]

\* the sequences of at most MaxItems items of U with pairwise different ids
SeqsOf(U) ==
  {q \in UNION {[1..k -> U] : k \in 0..MaxItems} :
     \A i, j \in 1..Len(q) : i # j => q[i].id # q[j].id}

InitIntegrity ==
  /\ \E ts \in SeqsOf(TaskUniverse), ss \in SeqsOf(SubTaskUniverse), rs \in SeqsOf(RecordUniverse) :
       store = [EmptyStore EXCEPT !.ls.tasks = Some(ts), !.ls.subTasks = Some(ss),
                                  !.ls.records = Some(rs)]
  /\ Fits(store)
  /\ now = 10
  /\ op = "init"
  /\ ret = NoRet
  /\ ops = 0
  /\ calls = 0
  /\ made = {}
  /\ zone = "UTC"
  /\ task = NoTask
  /\ result = <<>>
  /\ app = NoApp
  /\ timer = IdleTimer
  /\ today = 0
  /\ clicks = 0

NextIntegrity ==
  \/ RepairData
  \/ CheckHealth

SpecIntegrity == InitIntegrity /\ [][NextIntegrity]_vars

\* ------------------------------------------- decomposition of any task
\* the tasks the form submits: both dates are midnights UTC, the start is
\* not after the deadline
TaskForms ==
  {[id |-> 1, isDaily |-> d, startDate |-> DateOfDay(d0), deadline |-> DateOfDay(d1),
    totalPomodoros |-> n, dailyPomodoros |-> dp] :
     d \in BOOLEAN, d0 \in 1..MaxDay, d1 \in 1..MaxDay, n \in 0..MaxPomodoros,
     dp \in {None, Some(0 - 1), Some(0), Some(2)}}

InitSplit ==
  /\ store = EmptyStore
  /\ now = 10
  /\ op = "init"
  /\ ret = NoRet
  /\ ops = 0
  /\ calls = 0
  /\ made = {}
  /\ zone \in Zones
  /\ task \in {t \in TaskForms : t.startDate <= t.deadline}
  /\ result = <<>>
  /\ app = NoApp
  /\ timer = IdleTimer
  /\ today = 0
  /\ clicks = 0

SplitTask ==
  /\ op = "init"
  /\ result' = splitTaskIntoSubTasks(zone, task)
  /\ op' = "split"
  /\ UNCHANGED <<store, now, ret, ops, calls, made, zone, task, timerVars>>

NextSplit == SplitTask

SpecSplit == InitSplit /\ [][NextSplit]_vars

\* ------------------------------------------------- the timer of the page
\* One task, one subtask of it and the ad hoc tasks made on the way, on a
\* page opened at noon UTC of day 1 or day 2.  Every click is counted; a
\* write that raises is the subject of the storage properties, so the steps
\* here are those whose writes fit.
TaskA ==
  [id |-> 1, name |-> "A", isDaily |-> FALSE, startDate |-> ParseDate(DateText[2]),
   deadline |-> ParseDate(DateText[2]), totalPomodoros |-> 2, completedPomodoros |-> 0,
   status |-> "pending"]
SubTaskS ==
  [id |-> 2, parentTaskId |-> 1, scheduledDate |-> DateText[2], pomodoros |-> 1,
   completedPomodoros |-> 0, status |-> "pending"]

InitTimer ==
  /\ store = [EmptyStore EXCEPT !.ls.tasks = Some(<<TaskA>>),
                                !.ls.subTasks = Some(SubTasksToJSON(<<SubTaskS>>))]
  /\ now = 10
  /\ op = "init"
  /\ ret = NoRet
  /\ ops = 0
  /\ calls = 0
  /\ made = {}
  /\ zone \in Zones
  /\ task = NoTask
  /\ result = <<>>
  /\ app = [NoApp EXCEPT !.tasks = <<TaskA>>, !.subTasks = <<SubTaskS>>]
  /\ timer = IdleTimer
  /\ today \in {DateOfDay(d) + HoursPerDay \div 2 : d \in 1..2}
  /\ clicks = 0

W == [t |-> timer, a |-> app, s |-> store, threw |-> FALSE]

Commit(name, w1, n) ==
  /\ ~w1.threw
  /\ timer' = Render(W, w1).t
  /\ app' = w1.a
  /\ store' = w1.s
  /\ op' = name
  /\ clicks' = clicks + n
  /\ UNCHANGED <<now, ret, ops, calls, made, zone, task, result, today>>

SelectTask ==
  /\ clicks < MaxClicks
  /\ \E i \in 1..Len(app.tasks) :
       Commit("selectTask", handleTaskSelect(W, "task", app.tasks[i], zone, today), 1)
SelectSubTask ==
  /\ clicks < MaxClicks
  /\ \E i \in 1..Len(app.subTasks) :
       Commit("selectSubTask", handleTaskSelect(W, "subTask", app.subTasks[i], zone, today), 1)
ManagerSelectTask ==
  /\ clicks < MaxClicks
  /\ \E i \in 1..Len(app.tasks) :
       Commit("managerSelectTask", handleTaskManagerTaskSelect(W, app.tasks[i]), 1)
CreateTempSubTask ==
  /\ clicks < MaxClicks
  /\ Len(timer.tempSubTasks) < MaxTemp
  /\ Commit("createTempSubTask", createTempSubTask(W, zone, today), 1)
SelectTempSubTask ==
  /\ clicks < MaxClicks
  /\ \E i \in 1..Len(timer.tempSubTasks) :
       Commit("selectTempSubTask", selectTempSubTask(W, timer.tempSubTasks[i]), 1)
StartTimer ==
  /\ clicks < MaxClicks
  /\ ~timer.isRunning
  /\ ~startDisabled(W, zone, today)
  /\ Commit("start", startTimer(W, zone, today, now), 1)
PauseTimer ==
  /\ clicks < MaxClicks
  /\ timer.isRunning
  /\ ~timer.isPaused
  /\ Commit("pause", pauseTimer(W, now), 1)
ResumeTimer ==
  /\ clicks < MaxClicks
  /\ timer.isRunning
  /\ timer.isPaused
  /\ Commit("resume", resumeTimer(W, now), 1)
StopTimer ==
  /\ clicks < MaxClicks
  /\ timer.isRunning
  /\ Commit("stop", stopTimer(W, today, now), 1)
ResetTimer ==
  /\ clicks < MaxClicks
  /\ timer.isRunning
  /\ Commit("reset", resetTimer(W, today, now), 1)
\* one firing of an armed interval
TimerTick ==
  /\ timer.armed > 0
  /\ \E zero \in {0, WorkSeconds} : Commit("tick", tick(W, today, now, zero), 0)

NextTimer ==
  \/ SelectTask
  \/ SelectSubTask
  \/ ManagerSelectTask
  \/ CreateTempSubTask
  \/ SelectTempSubTask
  \/ StartTimer
  \/ PauseTimer
  \/ ResumeTimer
  \/ StopTimer
  \/ ResetTimer
  \/ TimerTick

SpecTimer == InitTimer /\ [][NextTimer]_vars

\* ------------------------------------------- reads of an arbitrary store
\* what localStorage may hold under a collection key: nothing, the JSON of
\* a collection, a text JSON.parse rejects, or the JSON of a non-array
DataTask(i, tag) == [id |-> i, name |-> "A", projectTagId |-> tag]
ProjectTag(i) == [id |-> i, name |-> "A"]
StoredItems ==
  [tasks |-> <<DataTask(1, Some(1)), DataTask(2, None)>>, subTasks |-> <<S(4, 1, "ymd")>>,
   records |-> <<R(7, 1)>>, projectTags |-> <<ProjectTag(1), ProjectTag(2)>>,
   settings |-> [pomodoroDuration |-> 25], daily |-> <<1>>, monthly |-> <<1>>]
ReadKeys == {"tasks", "subTasks", "records", "projectTags", "settings"}
DataStores ==
  {s \in
  {[ls |-> [k \in CollectionKeys |->
              IF k \in present \/ k = bad THEN Some(StoredItems[k]) ELSE None],
    bk |-> <<>>, avail |-> a,
    form |-> [k \in CollectionKeys |-> IF k = bad THEN f ELSE "json"]] :
     present \in SUBSET ReadKeys, bad \in ReadKeys \cup {"none"}, f \in Forms,
     a \in BOOLEAN} : Fits(s)}

InitData ==
  /\ store \in DataStores
  /\ now = 10
  /\ op = "init"
  /\ ret = NoRet
  /\ ops = 0
  /\ calls = 0
  /\ made = {}
  /\ zone = "UTC"
  /\ task = NoTask
  /\ result = <<>>
  /\ app = NoApp
  /\ timer = IdleTimer
  /\ today = 0
  /\ clicks = 0

\* a component reads one collection: result is what the call returned
ReadCollection ==
  \E key \in ReadKeys \ {"settings"} :
    LET r == getAll(store, key)
    IN /\ op' = key
       /\ ret' = [NoRet EXCEPT !.ok = ~r.threw]
       /\ result' = r.value
       /\ UNCHANGED <<store, now, ops, calls, made, zone, task, timerVars>>

ReadSettings ==
  /\ op' = "settings"
  /\ ret' = NoRet
  /\ result' = settingsGet(store)
  /\ UNCHANGED <<store, now, ops, calls, made, zone, task, timerVars>>

\* documents a user may import besides the one an export just produced
ImportDocs ==
  {[tasks |-> <<DataTask(2, None)>>],
   [settings |-> [pomodoroDuration |-> 30]],
   [tasks |-> <<DataTask(2, None)>>, pomodoroRecords |-> <<R(8, 2)>>,
    settings |-> [pomodoroDuration |-> 30], exportDate |-> 9]}

\* an import: task holds the document, ret.ok what the import reported
Imported(name, doc, s2, ok) ==
  /\ ops < MaxImports
  /\ store' = s2
  /\ op' = name
  /\ ret' = [NoRet EXCEPT !.ok = ok]
  /\ task' = doc
  /\ ops' = ops + 1
  /\ UNCHANGED <<now, calls, made, zone, result, timerVars>>

\* importData of the storage module, of a given document or of the text
\* exportData returned just before
ImportData ==
  \E doc \in ImportDocs \cup {exportData(store, now).doc} :
    /\ doc \in ImportDocs \/ ~exportData(store, now).threw
    /\ LET r == importData(store, doc, now, 0)
       IN Imported(IF doc \in ImportDocs THEN "importData" ELSE "importExported",
                   doc, r.st, r.ret)

\* the data manager's import of a file, given or just exported by it
ImportFile ==
  \E doc \in ImportDocs \cup {fileExport(store, now).doc} :
    /\ doc \in ImportDocs \/ ~fileExport(store, now).threw
    /\ LET r == fileImport(store, doc)
       IN Imported(IF doc \in ImportDocs THEN "importFile" ELSE "importFileExported",
                   doc, r.st, r.ret)

\* the project manager deletes a tag and the user confirms
DeleteProjectTag ==
  \E id \in 1..MaxItems, adv \in 0..1 :
    /\ ops < MaxImports
    /\ LET r == handleDelete(store, id, now, adv)
       IN /\ store' = r.st
          /\ ret' = [NoRet EXCEPT !.ok = ~r.threw, !.sel = id]
    /\ op' = "deleteProjectTag"
    /\ ops' = ops + 1
    /\ now' = now + adv
    /\ UNCHANGED <<calls, made, zone, task, result, timerVars>>

NextData ==
  \/ ReadCollection
  \/ ReadSettings
  \/ DeleteProjectTag
  \/ ImportData
  \/ ImportFile

SpecData == InitData /\ [][NextData]_vars

\* ------------------------------------------------- hashing of any string
\* UTF-16 code units: a letter, the letter 4096 further, the largest unit
HashChars == {65, 4161, 65535}
RECURSIVE StringsOf(_)
StringsOf(n) ==
  IF n = 0 THEN {<<>>}
  ELSE LET shorter == StringsOf(n - 1)
       IN shorter \cup {Append(cs, c) : cs \in {x \in shorter : Len(x) = n - 1}, c \in HashChars}
\* str with the unit at position i replaced by c
Replaced(str, i, c) == [str EXCEPT ![i] = c]
\* str with the units at positions i and i + 1 exchanged
Swapped(str, i) == [str EXCEPT ![i] = str[i + 1], ![i + 1] = str[i]]
HashPairs ==
  UNION {{[a |-> str, b |-> str]}
         \cup {[a |-> str, b |-> Replaced(str, i, c)] : i \in 1..Len(str), c \in HashChars}
         \cup {[a |-> str, b |-> Swapped(str, i)] : i \in 1..(Len(str) - 1)} :
           str \in StringsOf(MaxHashLen)}

InitHash ==
  /\ task \in HashPairs
  /\ store = EmptyStore
  /\ now = 10
  /\ op = "init"
  /\ ret = NoRet
  /\ ops = 0
  /\ calls = 0
  /\ made = {}
  /\ zone = "UTC"
  /\ result = <<>>
  /\ app = NoApp
  /\ timer = IdleTimer
  /\ today = 0
  /\ clicks = 0

\* two payloads are hashed: task holds the strings, result the loop's values
HashStrings ==
  /\ op = "init"
  /\ result' = [a |-> hashLoop(task.a, Len(task.a)), b |-> hashLoop(task.b, Len(task.b))]
  /\ op' = "generateHash"
  /\ UNCHANGED <<store, now, ret, ops, calls, made, zone, task, timerVars>>

NextHash == HashStrings

SpecHash == InitHash /\ [][NextHash]_vars

\* ------------------------------------------- the lists of the application
\* App loads the collections once, when the page opens; the task manager,
\* the subtask manager and the timer change them through App's handlers, the
\* project manager changes the store directly.  Ids are generated per click.
FormTask(i, daily) ==
  [id |-> i, name |-> "A", projectTagId |-> None, isDaily |-> daily,
   startDate |-> DateOfDay(1), deadline |-> DateOfDay(1), totalPomodoros |-> 1,
   dailyPomodoros |-> Some(1)]
AppStores ==
  {[EmptyStore EXCEPT !.ls.tasks = Some(<<DataTask(1, Some(1)), DataTask(2, None)>>),
                      !.ls.subTasks = Some(SubTasksToJSON(<<S(4, 1, "Date")>>)),
                      !.ls.records = Some(rs),
                      !.ls.projectTags = Some(<<ProjectTag(1)>>)] :
     rs \in {<<>>, <<R(7, 1)>>}}

InitApp ==
  /\ store \in AppStores
  /\ now = 10
  /\ op = "init"
  /\ ret = NoRet
  /\ ops = 0
  /\ calls = 0
  /\ made = {}
  /\ zone = "UTC"
  /\ task = NoTask
  /\ result = <<>>
  /\ app = [NoApp EXCEPT !.tasks = GetTasks(store), !.subTasks = GetSubTasks(store),
                         !.pomodoroRecords = GetRecords(store)]
  /\ timer = IdleTimer
  /\ today = 0
  /\ clicks = 0

generateId == 10 + clicks

\* the states of App and of the store after a handler, raised or not
Handled(name, w1) ==
  /\ clicks < MaxClicks
  /\ app' = w1.a
  /\ store' = w1.s
  /\ op' = name
  /\ ret' = [NoRet EXCEPT !.ok = ~w1.threw]
  /\ clicks' = clicks + 1
  /\ UNCHANGED <<now, ops, calls, made, zone, task, result, timer, today>>

AddTask ==
  \E daily \in BOOLEAN :
    Handled("addTask",
            handleAddTask(W, zone, FormTask(generateId, daily), generateId + MaxClicks, now, 0))
AddSubTask ==
  \E i \in 1..Len(app.tasks) :
    Handled("addSubTask", addSubTask(W, S(generateId, app.tasks[i].id, "Date"), now))
UpdateTask ==
  \E i \in 1..Len(app.tasks) :
    Handled("updateTask", updateTask(W, [app.tasks[i] EXCEPT !.name = "B"], now))
UpdateSubTask ==
  \E i \in 1..Len(app.subTasks) :
    Handled("updateSubTask",
            updateSubTask(W, [app.subTasks[i] EXCEPT !.scheduledDate = "Date"], now))
DeleteSubTask ==
  \E i \in 1..Len(app.subTasks) :
    Handled("deleteSubTask", deleteSubTask(W, app.subTasks[i].id, now))
DeleteTask ==
  \E i \in 1..Len(app.tasks) :
    Handled("deleteTask", deleteTask(W, app.tasks[i].id, now, 0))
\* the project manager deletes a tag: App's lists are not told
DeleteTagBesideApp ==
  /\ clicks < MaxClicks
  /\ \E id \in TagIdsOf(store) :
       LET r == handleDelete(store, id, now, 0)
       IN /\ store' = r.st
          /\ ret' = [NoRet EXCEPT !.ok = ~r.threw, !.sel = id]
  /\ op' = "deleteProjectTag"
  /\ clicks' = clicks + 1
  /\ UNCHANGED <<app, now, ops, calls, made, zone, task, result, timer, today>>

NextApp ==
  \/ AddTask
  \/ AddSubTask
  \/ UpdateTask
  \/ UpdateSubTask
  \/ DeleteSubTask
  \/ DeleteTask
  \/ DeleteTagBesideApp

SpecApp == InitApp /\ [][NextApp]_vars

\* ------------------------------------------------------------- properties
\* what the application reads back from the six collections
Collections(s) == <<GetTasks(s), GetSubTasks(s), GetRecords(s),
                    GetSettings(s), GetDailyStats(s), GetMonthlyStats(s)>>

Count(seq, P(_)) == Cardinality({i \in 1..Len(seq) : P(seq[i])})

\* C1: whenever restoreLatestBackup returns false, the six stored collections
\* are exactly what they were before the call (no partial restore).
C1_FailedRestoreChangesNothing ==
  [][(op' = "restore" /\ ~ret'.ok) => Collections(store') = Collections(store)]_vars

Newest(keys, n) == {k \in keys : Cardinality({j \in keys : j > k}) < n}

\* C2: after more than 5 autoBackup calls exactly 5 backup keys remain and they
\* are the keys of the 5 most recently created snapshots; after any autoBackup
\* the number of backup keys is never above 5.
C2_FiveNewestRemain ==
  /\ calls > MAX_BACKUPS =>
       /\ Cardinality(DOMAIN store.bk) = MAX_BACKUPS
       /\ DOMAIN store.bk = Newest(made, MAX_BACKUPS)
  /\ op = "createBackup" => Cardinality(DOMAIN store.bk) <= MAX_BACKUPS

\* C3: a repairData that directly follows a repairData reports nothing removed
\* and leaves the subtasks and the time-records as the first run left them.
C3_SecondRepairIsNoOp ==
  [][(op = "repair" /\ op' = "repair" /\ ops' = ops + 1) =>
       /\ ~ret'.ok
       /\ ret'.count = 0
       /\ GetSubTasks(store') = GetSubTasks(store)
       /\ GetRecords(store') = GetRecords(store)]_vars

HasId(seq, x) == \E i \in 1..Len(seq) : seq[i].id = x

\* C4: repairData removes exactly the time-records whose taskId is neither a
\* stored task id nor a stored subtask id and exactly the subtasks whose
\* parentTaskId is no stored task id, keeps the rest in order, never changes
\* the tasks, reports the number removed, and reports no repair and writes
\* nothing when nothing is removed.
C4_RepairRemovesExactlyOrphans ==
  [][(op' = "repair" /\ ops' = ops + 1) =>
       LET tasks == GetTasks(store)
           subTasks == GetSubTasks(store)
           records == GetRecords(store)
           OrphanR(r) == ~HasId(tasks, r.taskId) /\ ~HasId(subTasks, r.taskId)
           OrphanS(st) == ~HasId(tasks, st.parentTaskId)
           removed == Count(records, OrphanR) + Count(subTasks, OrphanS)
       IN /\ GetRecords(store') = SelectSeq(records, LAMBDA r : ~OrphanR(r))
          /\ GetSubTasks(store') = SelectSeq(subTasks, LAMBDA st : ~OrphanS(st))
          /\ store'.ls.tasks = store.ls.tasks
          /\ ret'.count = removed
          /\ ret'.ok = (removed > 0)
          /\ removed = 0 => store' = store]_vars

\* a repair removed two items and kept the record of a remaining subtask
C4_Witness ==
  /\ op = "repair"
  /\ ret.ok
  /\ ret.count = 2
  /\ \E i \in 1..Len(GetRecords(store)) : HasId(GetSubTasks(store), GetRecords(store)[i].taskId)

\* C5: checkDataHealth is healthy exactly when it lists no issue, lists one
\* issue per task without id or name, one per subtask whose parent is no
\* stored task and one per time-record whose taskId is neither a stored task
\* id nor a stored subtask id (none for a record of an existing subtask), and
\* changes nothing in the store.
C5_HealthListsEveryOrphan ==
  [][(op' = "check" /\ ops' = ops + 1) =>
       LET tasks == GetTasks(store)
           subTasks == GetSubTasks(store)
           records == GetRecords(store)
           issues == ret'.issues
           IssuesOf(kind) == {i \in 1..Len(issues) : issues[i].kind = kind}
       IN /\ ret'.ok = (issues = <<>>)
          /\ Cardinality(IssuesOf("task")) = Count(tasks, LAMBDA t : t.id = 0 \/ t.name = "")
          /\ Cardinality(IssuesOf("subTask")) =
               Count(subTasks, LAMBDA st : ~HasId(tasks, st.parentTaskId))
          /\ Cardinality(IssuesOf("record")) =
               Count(records, LAMBDA r : ~HasId(tasks, r.taskId) /\ ~HasId(subTasks, r.taskId))
          /\ \A i \in 1..Len(records) :
               HasId(subTasks, records[i].taskId) =>
                 \A j \in 1..Len(issues) :
                   issues[j] # [kind |-> "record", id |-> records[i].id]
          /\ store' = store]_vars

\* a check reported three issues while a record of an existing subtask is stored
C5_Witness ==
  /\ op = "check"
  /\ ~ret.ok
  /\ Len(ret.issues) = 3
  /\ \E i \in 1..Len(GetRecords(store)) : HasId(GetSubTasks(store), GetRecords(store)[i].taskId)

WriteOps == {"saveTasks", "saveSubTasks", "saveRecords",
             "saveSettings", "saveDailyStats", "saveMonthlyStats"}

\* C6: every write of the tasks, the subtasks, the time-records, the
\* settings, the daily statistics or the monthly statistics that returns
\* normally is followed at once by one snapshot, stored under the key of the
\* current millisecond, that holds the contents just written.
C6_EveryWriteSnapshots ==
  [][(ops' = ops + 1 /\ op' \in WriteOps /\ ret'.ok) =>
       /\ now' \in DOMAIN store'.bk
       /\ store'.bk[now'].fields = DataToJSON(CurrentData(store', now'))]_vars

MaxKey(keys) == CHOOSE k \in keys : \A j \in keys : j <= k

\* C7: when the newest snapshot is one autoBackup wrote and nobody changed,
\* restoreLatestBackup reads the key with the greatest timestamp, finds the
\* recomputed hash equal to the stored one, returns true, and afterwards each
\* of the six stored collections equals the snapshot's field.
C7_GenuineSnapshotRestores ==
  [][(op' = "restore" /\ ops' = ops + 1 /\ DOMAIN store.bk # {}
        /\ store.bk[MaxKey(DOMAIN store.bk)].origin = "autoBackup") =>
       LET b == store.bk[MaxKey(DOMAIN store.bk)]
       IN /\ ret'.sel = MaxKey(DOMAIN store.bk)
          /\ b.hash = generateHash(Stringify(b.fields))
          /\ ret'.ok
          /\ \A f \in SnapshotFields : store'.ls[FieldKey(f)] = Some(b.fields[f])]_vars

PassesChecksum(b) == b.parsable /\ b.hash = generateHash(Stringify(b.fields))

DayOf(h) == h \div HoursPerDay

\* C9: for a daily task from day D0 to day D1 >= D0 splitTaskIntoSubTasks
\* returns (D1 - D0) + 1 subtasks, the i-th scheduled on day D0 + i - 1, each
\* with the task's id as parent, dailyPomodoros pomodoros (1 when unset or not
\* positive), no completed pomodoro and status pending.
C9_OneSubTaskPerCalendarDay ==
  (op = "split" /\ task.isDaily) =>
    LET D0 == DayOf(task.startDate)
        D1 == DayOf(task.deadline)
        want == IF task.dailyPomodoros \in {Some(n) : n \in 1..MaxPomodoros}
                THEN task.dailyPomodoros[1] ELSE 1
    IN /\ Len(result) = (D1 - D0) + 1
       /\ \A i \in 1..Len(result) :
            /\ result[i].scheduledDate = [ymd |-> D0 + i - 1]
            /\ result[i].parentTaskId = task.id
            /\ result[i].pomodoros = want
            /\ result[i].completedPomodoros = 0
            /\ result[i].status = "pending"

RECURSIVE SumPomodoros(_)
SumPomodoros(sts) ==
  IF sts = <<>> THEN 0 ELSE sts[1].pomodoros + SumPomodoros(Tail(sts))

\* C10: for a task that is not daily, with daysDiff = (D1 - D0) + 1, the
\* pomodoros of the returned subtasks add up to
\* min(totalPomodoros, daysDiff * ceil(totalPomodoros / daysDiff)), never to
\* more than totalPomodoros, and each subtask has between 1 and
\* ceil(totalPomodoros / daysDiff) pomodoros.
C10_EvenSplitAddsUp ==
  (op = "split" /\ ~task.isDaily) =>
    LET daysDiff == (DayOf(task.deadline) - DayOf(task.startDate)) + 1
        total == task.totalPomodoros
        ceil == CHOOSE c \in 0..total : c * daysDiff >= total /\ (c = 0 \/ (c - 1) * daysDiff < total)
        cap == IF total <= daysDiff * ceil THEN total ELSE daysDiff * ceil
    IN /\ SumPomodoros(result) = cap
       /\ SumPomodoros(result) <= total
       /\ \A i \in 1..Len(result) :
            result[i].pomodoros >= 1 /\ result[i].pomodoros <= ceil

\* five pomodoros over three days came out as 2, 2 and 1
C10_Witness ==
  /\ op = "split"
  /\ ~task.isDaily
  /\ task.totalPomodoros = 5
  /\ Len(result) = 3
  /\ result[1].pomodoros = 2
  /\ result[3].pomodoros = 1

Entities(tm, a) == a.tasks \o a.subTasks \o tm.tempSubTasks
Find(seq, x) == seq[CHOOSE i \in 1..Len(seq) : seq[i].id = x]
Goal(x) == IF "totalPomodoros" \in DOMAIN x THEN x.totalPomodoros ELSE x.pomodoros
WorkEnds == op' = "tick" /\ timer.mode = "work" /\ timer.timeLeft <= 1
\* C12: when the work countdown of a running, unpaused timer reaches zero,
\* the completedPomodoros of the selected target grows by exactly 1, its
\* status becomes completed if the new count reaches its target count and
\* in-progress otherwise, the mode becomes break, the countdown becomes
\* shortBreakDuration * 60 and the open time-record stays open.
C12_WorkEndAddsOnePomodoro ==
  [][WorkEnds =>
       LET x == currentTask(W)[1].id
           before == Find(Entities(timer, app), x)
           after == Find(Entities(timer', app'), x)
       IN /\ after.completedPomodoros = before.completedPomodoros + 1
          /\ after.status = IF after.completedPomodoros >= Goal(before)
                            THEN "completed" ELSE "in-progress"
          /\ timer'.mode = "break"
          /\ timer'.timeLeft = BreakSeconds
          /\ timer.currentRecord # None
          /\ timer'.currentRecord = timer.currentRecord
          /\ Find(GetRecords(store'), timer.currentRecord[1].id).status = "active"]_vars

BreakEnds == op' = "tick" /\ timer.mode = "break" /\ timer.timeLeft <= 1
Open(records) == {i \in 1..Len(records) : records[i].status \in {"active", "paused"}}
Counts(tm, a) ==
  [i \in 1..Len(Entities(tm, a)) |->
     <<Entities(tm, a)[i].completedPomodoros, Entities(tm, a)[i].status>>]
AfterStop(w) == Render(w, stopTimer(w, today, now))
DayNamed(text) == CHOOSE d \in 1..Len(DateText) : DateText[d] = text
\* scheduled for the local calendar day of instant h: a task from the day of
\* its startDate to the day of its deadline, a subtask or ad hoc task on the
\* day its scheduledDate names
ScheduledToday(z, h, x) ==
  IF "scheduledDate" \in DOMAIN x THEN DayNamed(x.scheduledDate) = getDate(z, h)
  ELSE getDate(z, x.startDate) <= getDate(z, h) /\ getDate(z, h) <= getDate(z, x.deadline)
\* C16: a start takes the idle timer to running in work mode and adds exactly
\* one time-record, active and with the id of the selected target, only when
\* a target is selected, is not completed and is scheduled for today;
\* otherwise it adds no record and leaves the timer idle with its countdown.
C16_StartOnlyOnTodaysOpenTarget ==
  [][op' = "start" =>
       IF timer'.isRunning
       THEN /\ ~timer.isRunning
            /\ timer'.mode = "work"
            /\ ~timer'.isPaused
            /\ currentTask(W) # None
            /\ Len(app'.pomodoroRecords) = Len(app.pomodoroRecords) + 1
            /\ GetRecords(store') = app'.pomodoroRecords
            /\ SubSeq(app'.pomodoroRecords, 1, Len(app.pomodoroRecords)) = app.pomodoroRecords
            /\ app'.pomodoroRecords[Len(app'.pomodoroRecords)].status = "active"
            /\ app'.pomodoroRecords[Len(app'.pomodoroRecords)].taskId = currentTask(W)[1].id
            /\ Find(Entities(timer, app), currentTask(W)[1].id).status # "completed"
            /\ ScheduledToday(zone, today, Find(Entities(timer, app), currentTask(W)[1].id))
       ELSE /\ app'.pomodoroRecords = app.pomodoroRecords
            /\ store' = store
            /\ timer' = timer]_vars

TargetId(tm, a) ==
  LET w == [t |-> tm, a |-> a] IN IF currentTask(w) = None THEN 0 ELSE currentTask(w)[1].id
\* C17: while the timer runs, in work or break, paused or not, the selected
\* target stays the one the timer was started with, whatever is clicked;
\* while the timer is idle, selecting another target sets the countdown to
\* pomodoroDuration * 60 and the mode to work.
C17_SelectionRejectedWhileRunning ==
  [][/\ timer.isRunning => TargetId(timer', app') = TargetId(timer, app)
     /\ (~timer.isRunning /\ TargetId(timer', app') # TargetId(timer, app)) =>
          timer'.timeLeft = WorkSeconds /\ timer'.mode = "work"]_vars

\* C18: in every state at most one interval is armed, none while the timer
\* is idle or paused, and no step takes more than 1 off the countdown.
C18_OneIntervalAtMost ==
  /\ [](/\ timer.armed <= 1
        /\ (~timer.isRunning \/ timer.isPaused) => timer.armed = 0)
  /\ [][timer'.timeLeft >= timer.timeLeft - 1]_vars

\* the interval armed again after a pause, on a countdown under way
C18_Witness ==
  /\ op = "resume"
  /\ timer.armed = 1
  /\ timer.timeLeft < WorkSeconds

SameRecord(r, q) == r.id = q.id /\ r.taskId = q.taskId /\ r.startTime = q.startTime
\* C19: pause stores the open time-record as paused and resume as active,
\* neither changes its id, taskId or startTime nor the mode; a tick happens
\* only while running and not paused and takes exactly 1 off a countdown
\* above 1; from a pause to its resume the countdown keeps its value.
C19_PauseKeepsRecordAndCountdown ==
  [][/\ op' \in {"pause", "resume"} =>
          /\ timer.currentRecord # None
          /\ timer'.currentRecord # None
          /\ SameRecord(timer'.currentRecord[1], timer.currentRecord[1])
          /\ timer'.currentRecord[1].status = IF op' = "pause" THEN "paused" ELSE "active"
          /\ Find(GetRecords(store'), timer.currentRecord[1].id) = timer'.currentRecord[1]
          /\ timer'.mode = timer.mode
          /\ timer'.timeLeft = timer.timeLeft
     /\ op' = "tick" =>
          /\ timer.isRunning
          /\ ~timer.isPaused
          /\ timer.timeLeft > 1 => timer'.timeLeft = timer.timeLeft - 1
     /\ timer'.timeLeft < timer.timeLeft => op' = "tick"
     /\ (timer.isPaused /\ timer'.isRunning) => timer'.timeLeft = timer.timeLeft]_vars

\* a break resumed with the record active again
C19_Witness ==
  /\ op = "resume"
  /\ timer.mode = "break"
  /\ timer.currentRecord # None
  /\ Find(GetRecords(store), timer.currentRecord[1].id).status = "active"

\* C20: at most one time-record in the store is active or paused, after any
\* sequence of start, pause, resume, stop, reset, ticks and selections.
C20_OneOpenRecordAtMost == Cardinality(Open(GetRecords(store))) <= 1

\* a second record is open after the first was closed
C20_Witness ==
  /\ Len(GetRecords(store)) = 2
  /\ GetRecords(store)[1].status = "completed"
  /\ GetRecords(store)[2].status \in {"active", "paused"}

\* the store cannot serve the collection under key: it is unavailable, the
\* key is absent, or the text is not the serialized collection
Degraded(key) ==
  \/ ~store.avail
  \/ store.ls[key] = None
  \/ store.form[key] # "json"

\* C21: no read of the persistence layer throws: getAll of tasks, subtasks,
\* time-records and project tags returns the empty sequence, and
\* settingsStorage.get the default settings, whenever the store is
\* unavailable, the key is absent, or the stored value is not the serialized
\* collection (unparsable text, or the {} a failed serialization writes)
C21_ReadsNeverThrow ==
  op \in ReadKeys =>
    /\ ret.ok
    /\ Degraded(op) => result = IF op = "settings" THEN defaultSettings ELSE <<>>

SaveOps == {"saveTasks", "saveSubTasks", "saveRecords", "saveSettings",
            "saveDailyStats", "saveMonthlyStats"}

\* C22: no write of the persistence layer throws to its caller: when the
\* store rejects a write (unavailable, or quota exceeded on the value although
\* the probe succeeded), saveAll / save returns normally and the stored
\* collections keep their previous value, so that a changed collection is one
\* an available store had room for
C22_WritesNeverThrow ==
  [][op' \in SaveOps /\ ops' = ops + 1 =>
       /\ ret'.ok
       /\ (store'.ls # store.ls => store.avail /\ Fits(store'))]_vars

ImportOps == {"importData", "importExported", "importFile", "importFileExported"}
\* what the application reads under every key after a reload
ReadAll(s) == [k \in ReadKeys |-> IF k = "settings" THEN settingsGet(s) ELSE getAll(s, k)]

\* C23: import of a document in the export shape overwrites the stored
\* collection of each field the document has (tasks, pomodoroRecords,
\* settings, dailyStats, monthlyStats) and leaves the collection of every
\* absent field unchanged, so the application reads the imported collections
\* afterwards; importing the document that export just produced leaves every
\* stored collection equal by value to what it was (for an import that an
\* available store accepted)
C23_ImportOverwritesPresentFields ==
  [][op' \in ImportOps /\ ops' = ops + 1 /\ store.avail /\ ret'.ok =>
       /\ \A f \in ExportFields :
            IF f \in DOMAIN task'
            THEN /\ store'.ls[FieldKey(f)] = Some(task'[f])
                 /\ store'.form[FieldKey(f)] = "json"
            ELSE /\ store'.ls[FieldKey(f)] = store.ls[FieldKey(f)]
                 /\ store'.form[FieldKey(f)] = store.form[FieldKey(f)]
       /\ op' \in {"importExported", "importFileExported"} => ReadAll(store') = ReadAll(store)]_vars

TagIds(s) == Ids(getAll(s, "projectTags").value)
TaskOf(s, i) == CHOOSE t \in {getAll(s, "tasks").value[j] : j \in 1..Len(getAll(s, "tasks").value)} : t.id = i

\* C24: deleting a project tag removes that tag from the tag collection, sets
\* projectTagId to undefined on every stored task that referenced it, and
\* deletes no task: the set of task ids is the same before and after, and
\* tasks that referenced another tag or none are unchanged
C24_TagDeletionClearsReferences ==
  [][op' = "deleteProjectTag" /\ ops' = ops + 1 /\ ret'.ok =>
       /\ TagIds(store') = TagIds(store) \ {ret'.sel}
       /\ Ids(getAll(store', "tasks").value) = Ids(getAll(store, "tasks").value)
       /\ \A i \in Ids(getAll(store, "tasks").value) :
            IF TaskOf(store, i).projectTagId = Some(ret'.sel)
            THEN TaskOf(store', i) = [TaskOf(store, i) EXCEPT !.projectTagId = None]
            ELSE TaskOf(store', i) = TaskOf(store, i)]_vars

C24_Witness ==
  /\ op = "deleteProjectTag"
  /\ ret.ok
  /\ ret.sel = 1
  /\ TagIds(store) = {2}
  /\ Ids(getAll(store, "tasks").value) = {1, 2}
  /\ TaskOf(store, 1).projectTagId = None

\* the positions at which two strings of equal length differ
DiffAt(a, b) == {i \in 1..Len(a) : a[i] # b[i]}

\* C25: generateHash is a deterministic function of its input string equal to
\* the fold h := h * 31 + charCode wrapped to a signed 32-bit integer from 0;
\* it is order-sensitive (exchanging two adjacent different characters changes
\* the hash), and two strings of equal length that differ in exactly one
\* position have different hashes
C25_HashIsWrappedFold ==
  op = "generateHash" =>
    /\ result.a = generateHash(task.a)
    /\ result.b = generateHash(task.b)
    /\ task.a = task.b => result.a = result.b
    /\ Cardinality(DiffAt(task.a, task.b)) = 1 => result.a # result.b
    /\ (\E i \in 1..(Len(task.a) - 1) : task.a[i] # task.a[i + 1] /\ task.b = Swapped(task.a, i))
         => result.a # result.b

\* a payload of full length whose hash has wrapped below zero, and a
\* corruption of its first character
C25_Witness ==
  /\ op = "generateHash"
  /\ Len(task.a) = MaxHashLen
  /\ result.a < 0
  /\ DiffAt(task.a, task.b) = {1}
  /\ result.b # result.a

\* the tasks and subtasks the store holds
Stored(s) == GetTasks(s) \o GetSubTasks(s)

\* C26: after k work countdowns have reached zero for the same selected task
\* or subtask, without selecting the target anew, its stored
\* completedPomodoros is its initial value + k: every work countdown that
\* reaches zero raises the stored count of the selected target by one, none
\* is lost to a stale copy of the target
C26_NoIncrementLost ==
  [][WorkEnds /\ currentTask(W) # None /\ currentTask(W)[1].id \in Ids(Stored(store)) =>
       LET x == currentTask(W)[1].id
       IN Find(Stored(store'), x).completedPomodoros
            = Find(Stored(store), x).completedPomodoros + 1]_vars

\* the ids of the targets whose completedPomodoros differs between two states
Changed(tm1, a1, tm2, a2) ==
  {x \in Ids(Entities(tm1, a1)) \cap Ids(Entities(tm2, a2)) :
     Find(Entities(tm2, a2), x).completedPomodoros
       # Find(Entities(tm1, a1), x).completedPomodoros}

\* C27: the target whose completedPomodoros is incremented when a work
\* countdown reaches zero is the target whose id is the taskId of the open
\* time-record (the one selected at start), whatever select, create-ad-hoc,
\* start, pause and resume events came before
C27_IncrementGoesToRecordedTarget ==
  [][WorkEnds =>
       /\ timer.currentRecord # None
       /\ TargetId(timer, app) = timer.currentRecord[1].taskId
       /\ Changed(timer, app, timer', app') \subseteq {timer.currentRecord[1].taskId}]_vars

\* the issues of a health check that name an orphaned subtask or time-record
OrphanIssues(s) ==
  SelectSeq(checkDataHealth(s).issues, LAMBDA i : i.kind \in {"subTask", "record"})

\* C28: immediately after repairData returns, checkDataHealth reports no
\* orphaned subtask and no orphaned time-record: every stored subtask's
\* parentTaskId is a stored task id and every stored time-record's taskId is
\* a stored task id or a stored subtask id, whatever the store held before
C28_RepairLeavesNoOrphan ==
  op = "repair" =>
    /\ OrphanIssues(store) = <<>>
    /\ \A i \in 1..Len(GetSubTasks(store)) :
         GetSubTasks(store)[i].parentTaskId \in Ids(GetTasks(store))
    /\ \A i \in 1..Len(GetRecords(store)) :
         GetRecords(store)[i].taskId \in Ids(GetTasks(store)) \cup Ids(GetSubTasks(store))

\* C29: the in-memory lists of the application and the store stay consistent
\* across store-side operations: once a project tag has been deleted, no
\* later application-level write (updateTask, addTask, deleteTask, ...) writes
\* back a stale list that reintroduces the cleared projectTagId into the
\* store, so every stored task's projectTagId names a stored tag
C29_NoStaleListWrittenBack ==
  \A i \in 1..Len(GetTasks(store)) :
    \/ GetTasks(store)[i].projectTagId = None
    \/ GetTasks(store)[i].projectTagId[1] \in TagIdsOf(store)

\* C30: starting from a store with no orphans, after any sequence of the
\* application-level operations addTask (with generated subtasks),
\* addSubTask, addSubTasks, updateTask, updateSubTask, deleteSubTask and
\* deleteTask, every stored subtask's parentTaskId is the id of a stored task;
\* deleteTask removes the task and all of its subtasks from the in-memory
\* lists and from the store, and leaves the time-records
C30_NoOrphanSubTask ==
  /\ [](\A i \in 1..Len(GetSubTasks(store)) :
          GetSubTasks(store)[i].parentTaskId \in Ids(GetTasks(store)))
  /\ [][op' = "deleteTask" /\ clicks' = clicks + 1 /\ ret'.ok =>
          \E x \in Ids(app.tasks) :
            /\ app'.tasks = SelectSeq(app.tasks, LAMBDA t : t.id # x)
            /\ app'.subTasks = SelectSeq(app.subTasks, LAMBDA st : st.parentTaskId # x)
            /\ GetTasks(store') = app'.tasks
            /\ GetSubTasks(store') = [i \in 1..Len(app'.subTasks) |-> ReviveSubTask(app'.subTasks[i])]
            /\ GetRecords(store') = GetRecords(store)
            /\ app'.pomodoroRecords = app.pomodoroRecords]_vars

====
